---- MODULE Spec2Model ----
(***************************************************************************)
(* A model of the segmentation engine (src/src/chunking.py), of the fact    *)
(* extractor (src/src/metadata_extraction.py) and of the evaluator         *)
(* (src/src/benchmark.py).                                                 *)
(*                                                                         *)
(* A text is a sequence of characters, each a one-character string.        *)
(* Offsets are Python's: 0-based, half-open, and negative offsets count    *)
(* from the end of the text, as str slicing and str.rfind treat them.      *)
(***************************************************************************)
EXTENDS Integers, Sequences, FiniteSets, TLC

VARIABLES
    chunk_size,     \* DocumentChunker.chunk_size
    overlap,        \* DocumentChunker.overlap
    pc,             \* "idle" | "chunk_text" (at the head of the while loop) | "done"
    caller,         \* which entry point is running: "chunk_text" | "chunk_documents"
    documents,      \* chunk_documents' argument
    doc_i,          \* index of the document the for loop of chunk_documents is at
    all_chunks,     \* chunk_documents' all_chunks
    text,           \* chunk_text's argument
    prefix,         \* chunk_text's chunk_id_prefix
    start,          \* chunk_text's cursor
    chunk_count,    \* chunk_text's counter
    chunks,         \* chunk_text's list
    more,           \* history: the code has emitted chunks beyond the MaxChunks recorded
    skipped,        \* history: a blank slice was skipped since the last emitted chunk
    parity,         \* history: the number of while iterations of the running call, modulo 2
    ex_pc,          \* the extractor: "idle" | "called" | "done" | "process_chunks" (at the head of the for loop) | "returned" | "raised"
    ex_chunk,       \* extract_chunk_metadata's argument
    ex_result,      \* what extract_chunk_metadata returned or raised last
    pr_chunks,      \* process_chunks' argument
    pr_i,           \* index of the chunk the for loop of process_chunks is at
    processed_chunks, \* process_chunks' processed_chunks
    ex_given,       \* history: the argument of the running call as the caller passed it
    results,        \* RAGBenchmark.results
    bm_pc,          \* the evaluator: "idle" | "for_pairs" (at the head of the for loop of evaluate_multiple_queries) | "retrieve" (calling the retriever) | "metrics" (the retriever has returned) | "returned" | "raised"
    bm_fn,          \* the function of the evaluator called last
    bm_query,       \* evaluate_query's query
    relevant_ids,   \* evaluate_query's relevant_ids, the calculate_ functions' relevant
    bm_k,           \* the k of the call
    n_results,      \* the n_results evaluate_query gives the retriever
    retrieved,      \* evaluate_query's retrieved, the calculate_ functions' retrieved
    searches,       \* history: calls of the retriever made by the running evaluate_query
    bm_value,       \* what the call returned or raised
    bm_outer,       \* the entry point that called evaluate_query: "none" (a caller) | "evaluate_multiple_queries"
    query_relevance_pairs, \* evaluate_multiple_queries' argument
    pair_i,         \* index of the pair the for loop of evaluate_multiple_queries is at
    bm_base,        \* history: len(self.results) when the caller made its call
    aggregations    \* history: calls of get_aggregated_metrics since the last evaluation, up to MaxAggregations

chunkerVars == <<chunk_size, overlap, pc, caller, documents, doc_i, all_chunks,
                 text, prefix, start, chunk_count, chunks, more, skipped, parity>>

extractorVars == <<ex_pc, ex_chunk, ex_result, pr_chunks, pr_i, processed_chunks,
                   ex_given>>

\* the variables of evaluate_multiple_queries
batchVars == <<bm_outer, query_relevance_pairs, pair_i, bm_base,
               aggregations>>

benchmarkVars == <<results, bm_pc, bm_fn, bm_query, relevant_ids, bm_k,
                   n_results, retrieved, searches, bm_value, batchVars>>

vars == <<chunkerVars, extractorVars, benchmarkVars>>

\* Python's None
None == [none |-> TRUE]

\* no extraction is running
ExtractorIdle ==
    /\ ex_pc = "idle"
    /\ ex_chunk = None
    /\ ex_result = None
    /\ pr_chunks = <<>>
    /\ pr_i = 0
    /\ processed_chunks = <<>>
    /\ ex_given = None

\* RAGBenchmark(retriever), and no call running
BenchmarkIdle ==
    /\ results = <<>>
    /\ bm_pc = "idle"
    /\ bm_fn = "none"
    /\ bm_query = "none"
    /\ relevant_ids = <<>>
    /\ bm_k = 0
    /\ n_results = 0
    /\ retrieved = <<>>
    /\ searches = 0
    /\ bm_value = None
    /\ bm_outer = "none"
    /\ query_relevance_pairs = <<>>
    /\ pair_i = 0
    /\ bm_base = 0
    /\ aggregations = 0

----------------------------------------------------------------------------
(* Bounds of the model *)

\* longest text given to chunk_text directly
MaxLen == 4
\* largest chunk_size the constructor is given
MaxChunkSize == 4
\* largest overlap the constructor is given
MaxOverlap == 3
\* most documents in one chunk_documents batch
MaxDocs == 2
\* the model records the first MaxChunks chunks a chunk_text call emits; a
\* call that returns emits at most one chunk per character, so a returned
\* list is always recorded whole
MaxChunks == MaxLen + 2

\* the characters of the texts: a letter, a blank, a period, a newline
Alphabet == {"a", " ", ".", "\n"}

\* a text of five characters with a period in second place
LongTexts == {<<"a", ".", "a", "a", "a">>}

Texts == UNION {[1..n -> Alphabet] : n \in 0..MaxLen} \cup LongTexts

\* the contents of the documents of a batch
DocContents == {<<>>, <<" ">>, <<"a">>, <<"a", ".", " ", "a">>}

ChunkSizes == -1..MaxChunkSize
Overlaps == -1..MaxOverlap

----------------------------------------------------------------------------
(* Python's str operations *)

Min(a, b) == IF a < b THEN a ELSE b
Max(a, b) == IF a > b THEN a ELSE b

SetMax(S) == CHOOSE x \in S : \A y \in S : y <= x
SetMin(S) == CHOOSE x \in S : \A y \in S : x <= y

\* a slice bound as str slicing and str.rfind adjust it for a text of length n
PyIndex(i, n) == IF i < 0 THEN Max(i + n, 0) ELSE Min(i, n)

\* s[i:j]
Slice(s, i, j) ==
    LET lo == PyIndex(i, Len(s))
        hi == PyIndex(j, Len(s))
    IN  IF lo >= hi THEN <<>> ELSE SubSeq(s, lo + 1, hi)

\* s.rfind(c, i, j) for a single character c: the highest offset, or -1
RFind(s, c, i, j) ==
    LET lo == PyIndex(i, Len(s))
        hi == PyIndex(j, Len(s))
        hits == {k \in lo..(hi - 1) : s[k + 1] = c}
    IN  IF hits = {} THEN -1 ELSE SetMax(hits)

IsSpace(c) == c \in {" ", "\n", "\t"}

\* the slice as it is
StripNothing(s) == s

\* s.strip()
Strip(s) ==
    LET solid == {k \in 1..Len(s) : ~IsSpace(s[k])}
    IN  IF solid = {} THEN <<>> ELSE SubSeq(s, SetMin(solid), SetMax(solid))

----------------------------------------------------------------------------
(* DocumentChunker *)

\* __init__ stores its arguments as they come
DocumentChunker(cs, ov) == [chunk_size |-> cs, overlap |-> ov]

\* a loop that also runs with the cursor on the end of the text
LoopGuardOnEnd(st, t) == st <= Len(t)
\* the condition of the while loop
LoopGuard(st, t) == st < Len(t)

\* end = min(start + self.chunk_size, len(text))
TentativeEnd(t, st) == Min(st + chunk_size, Len(t))

\* the end of the slice after the search for a period or a newline
CutEnd(t, st) ==
    LET end == TentativeEnd(t, st)
    IN  IF end < Len(t)
        THEN LET last_period == RFind(t, ".", st, end)
                 last_newline == RFind(t, "\n", st, end)
             IN  IF last_period > st THEN last_period + 1
                 ELSE IF last_newline > st THEN last_newline + 1
                 ELSE end
        ELSE end

\* a cursor that forgets the overlap, and one that steps over a character
NextStartNoOverlap(end) == end
NextStartPastEnd(end) == end + 1
\* start = end - self.overlap
NextStart(end) == end - overlap

\* the id f"{chunk_id_prefix}_chunk_{chunk_count}", kept as its two parts
ChunkId(p, n) == <<p, "_chunk_", n>>

NewChunk(p, n, st, end, content) ==
    [id |-> ChunkId(p, n), content |-> content, start_char |-> st,
     end_char |-> end, length |-> Len(content)]

\* a file name is a sequence of characters in which the extension ".pdf"
\* is one element; doc["filename"].replace(".pdf", "")
RECURSIVE RemovePdf(_)
RemovePdf(name) ==
    IF name = <<>> THEN <<>>
    ELSE IF Head(name) = ".pdf" THEN RemovePdf(Tail(name))
    ELSE <<Head(name)>> \o RemovePdf(Tail(name))

\* dict.get(key, default)
Get(d, key, default) == IF key \in DOMAIN d THEN d[key] ELSE default

\* chunk.update({...}) in chunk_documents
Stamp(chunk, doc) ==
    [id |-> chunk.id, content |-> chunk.content,
     start_char |-> chunk.start_char, end_char |-> chunk.end_char,
     length |-> chunk.length,
     source_file |-> doc.filename, source_path |-> doc.path,
     doc_title |-> Get(doc.metadata, "title", "Unknown"),
     doc_author |-> Get(doc.metadata, "author", "Unknown")]

\* the file names pdf_folder.glob("*.pdf") gives the documents: "d1.pdf",
\* "d2.pdf.pdf", "d3.pdf", ...
FileName(i) ==
    IF i % 2 = 1 THEN <<"d", ToString(i), ".pdf">>
    ELSE <<"d", ToString(i), ".pdf", ".pdf">>

\* the i-th document of a batch: the loader's record, its content aside
Document(i, content) ==
    [filename |-> FileName(i),
     path |-> <<"data", "/">> \o FileName(i),
     content |-> content,
     metadata |-> IF i % 2 = 1 THEN [title |-> "T" \o ToString(i), author |-> "A"]
                  ELSE [author |-> "B"]]

Batches ==
    UNION {{[i \in 1..n |-> Document(i, c[i])] : c \in [1..n -> DocContents]}
           : n \in 0..MaxDocs}

NoDocuments == <<>>

\* the state chunk_text starts in
EnterChunkText(t, p) ==
    /\ text' = t
    /\ prefix' = p
    /\ start' = 0
    /\ chunk_count' = 0
    /\ chunks' = <<>>
    /\ more' = FALSE
    /\ skipped' = FALSE
    /\ parity' = 0

InitChunker ==
    /\ \E cs \in ChunkSizes, ov \in Overlaps :
          /\ chunk_size = DocumentChunker(cs, ov).chunk_size
          /\ overlap = DocumentChunker(cs, ov).overlap
    /\ pc = "idle"
    /\ caller = "none"
    /\ documents = NoDocuments
    /\ doc_i = 0
    /\ all_chunks = <<>>
    /\ text = <<>>
    /\ prefix = <<>>
    /\ start = 0
    /\ chunk_count = 0
    /\ chunks = <<>>
    /\ more = FALSE
    /\ skipped = FALSE
    /\ parity = 0
    /\ ExtractorIdle
    /\ BenchmarkIdle

\* a caller calls chunk_text(text) with the default prefix ""
CallChunkText ==
    /\ pc = "idle"
    /\ \E t \in Texts : EnterChunkText(t, <<>>)
    /\ pc' = "chunk_text"
    /\ caller' = "chunk_text"
    /\ UNCHANGED <<chunk_size, overlap, documents, doc_i, all_chunks>>
    /\ UNCHANGED <<extractorVars, benchmarkVars>>

\* the for loop of chunk_documents reaches document number i
EnterDocument(docs, i, acc) ==
    IF i <= Len(docs)
    THEN /\ EnterChunkText(docs[i].content, RemovePdf(docs[i].filename))
         /\ pc' = "chunk_text"
         /\ doc_i' = i
         /\ all_chunks' = acc
    ELSE /\ pc' = "done"
         /\ doc_i' = i
         /\ all_chunks' = acc
         /\ UNCHANGED <<text, prefix, start, chunk_count, chunks, more, skipped,
                        parity>>

\* a caller calls chunk_documents(documents)
CallChunkDocuments ==
    /\ pc = "idle"
    /\ \E docs \in Batches :
          /\ documents' = docs
          /\ EnterDocument(docs, 1, <<>>)
    /\ caller' = "chunk_documents"
    /\ UNCHANGED <<chunk_size, overlap>>
    /\ UNCHANGED <<extractorVars, benchmarkVars>>

\* one iteration of the while loop of chunk_text
ChunkTextStep ==
    /\ pc = "chunk_text"
    /\ LoopGuard(start, text)
    /\ LET end == CutEnd(text, start)
           chunk_text == Strip(Slice(text, start, end))
       IN  /\ IF chunk_text # <<>>
              THEN /\ skipped' = FALSE
                   /\ IF Len(chunks) < MaxChunks
                      THEN /\ chunks' = Append(chunks,
                                  NewChunk(prefix, chunk_count, start, end, chunk_text))
                           /\ chunk_count' = chunk_count + 1
                           /\ more' = more
                      ELSE /\ more' = TRUE
                           /\ UNCHANGED <<chunks, chunk_count>>
              ELSE /\ skipped' = TRUE
                   /\ UNCHANGED <<chunks, chunk_count, more>>
           /\ start' = NextStart(end)
    /\ parity' = 1 - parity
    /\ UNCHANGED <<chunk_size, overlap, pc, caller, documents, doc_i, all_chunks,
                   text, prefix>>
    /\ UNCHANGED <<extractorVars, benchmarkVars>>

\* the while loop ends and chunk_text returns its list; in chunk_documents the
\* chunks are stamped and appended, and the for loop moves on
ChunkTextReturn ==
    /\ pc = "chunk_text"
    /\ ~LoopGuard(start, text)
    /\ IF caller = "chunk_documents"
       THEN EnterDocument(documents, doc_i + 1,
                all_chunks \o [k \in 1..Len(chunks) |-> Stamp(chunks[k], documents[doc_i])])
       ELSE /\ pc' = "done"
            /\ UNCHANGED <<doc_i, all_chunks, text, prefix, start, chunk_count,
                           chunks, more, skipped, parity>>
    /\ UNCHANGED <<chunk_size, overlap, caller, documents>>
    /\ UNCHANGED <<extractorVars, benchmarkVars>>

NextChunker ==
    \/ CallChunkText
    \/ CallChunkDocuments
    \/ ChunkTextStep
    \/ ChunkTextReturn

SpecChunker == InitChunker /\ [][NextChunker]_vars

\* a chunker built with chunk_size > 0 and 0 <= overlap < chunk_size
InitValidChunker ==
    /\ InitChunker
    /\ chunk_size > 0
    /\ 0 <= overlap
    /\ overlap < chunk_size

\* such a chunker, and the interpreter always takes the next step of a
\* running call
FairSpecChunker ==
    InitValidChunker /\ [][NextChunker]_vars /\ WF_vars(NextChunker)

----------------------------------------------------------------------------
(* Python's re, as far as the extractor's patterns use it.                 *)
(* A pattern is a tree; Match gives every way the tree matches at an       *)
(* offset, in the order the backtracking matcher tries them, so the first  *)
(* is the match re finds. All patterns are compiled with re.IGNORECASE.    *)
(* A character outside ASCII is written by name: "mu" is the micro sign,   *)
(* "endash" the en dash, "o_acute" and "a_acute" the accented vowels.      *)

LowerOf ==
    [A |-> "a", B |-> "b", C |-> "c", D |-> "d", E |-> "e", F |-> "f",
     G |-> "g", H |-> "h", I |-> "i", J |-> "j", K |-> "k", L |-> "l",
     M |-> "m", N |-> "n", O |-> "o", P |-> "p", Q |-> "q", R |-> "r",
     S |-> "s", T |-> "t", U |-> "u", V |-> "v", W |-> "w", X |-> "x",
     Y |-> "y", Z |-> "z", O_acute |-> "o_acute", A_acute |-> "a_acute"]

\* one character of str.lower()
LowerChar(c) == IF c \in DOMAIN LowerOf THEN LowerOf[c] ELSE c

\* str.lower()
Lower(s) == [k \in 1..Len(s) |-> LowerChar(s[k])]

Digits == {"0", "1", "2", "3", "4", "5", "6", "7", "8", "9"}

Chr(c) == [t |-> "chr", c |-> c]
Cls(k) == [t |-> "cls", k |-> k]
Cat(xs) == [t |-> "cat", xs |-> xs]
Alt(xs) == [t |-> "alt", xs |-> xs]
Opt(x) == [t |-> "opt", x |-> x]
Star(x) == [t |-> "star", x |-> x]
Plus(x) == Cat(<<x, Star(x)>>)
Grp(x) == [t |-> "grp", x |-> x]
Lit(w) == Cat([k \in 1..Len(w) |-> Chr(w[k])])

\* does the pattern's single-character item accept character c
Accepts(re, c) ==
    IF re.t = "chr" THEN LowerChar(c) = LowerChar(re.c)
    ELSE IF re.k = "d" THEN c \in Digits
    ELSE IsSpace(c)

RECURSIVE Match(_, _, _, _)
RECURSIVE MatchCat(_, _, _, _, _)
RECURSIVE MatchAlt(_, _, _, _, _)
RECURSIVE MatchEach(_, _, _, _)
RECURSIVE MatchCatEach(_, _, _, _, _)

\* the matches of pattern re in s at offset i, the groups captured so far
\* being caps: a sequence of [pos, caps], most preferred first
Match(re, s, i, caps) ==
    CASE re.t \in {"chr", "cls"} ->
            IF i < Len(s) /\ Accepts(re, s[i + 1])
            THEN <<[pos |-> i + 1, caps |-> caps]>>
            ELSE <<>>
      [] re.t = "cat" -> MatchCat(re.xs, 1, s, i, caps)
      [] re.t = "alt" -> MatchAlt(re.xs, 1, s, i, caps)
      [] re.t = "opt" -> Match(re.x, s, i, caps) \o <<[pos |-> i, caps |-> caps]>>
      [] re.t = "star" ->
            MatchEach(re, s, SelectSeq(Match(re.x, s, i, caps), LAMBDA r : r.pos > i), 1)
                \o <<[pos |-> i, caps |-> caps]>>
      [] re.t = "grp" ->
            LET inner == Match(re.x, s, i, caps)
            IN  [k \in 1..Len(inner) |->
                    [pos |-> inner[k].pos,
                     caps |-> Append(inner[k].caps, SubSeq(s, i + 1, inner[k].pos))]]

\* the items xs[k..] of a concatenation, one after the other
MatchCat(xs, k, s, i, caps) ==
    IF k > Len(xs) THEN <<[pos |-> i, caps |-> caps]>>
    ELSE MatchCatEach(xs, k, s, Match(xs[k], s, i, caps), 1)

\* the rest of a concatenation after each match rs[n..] of its item k
MatchCatEach(xs, k, s, rs, n) ==
    IF n > Len(rs) THEN <<>>
    ELSE MatchCat(xs, k + 1, s, rs[n].pos, rs[n].caps)
            \o MatchCatEach(xs, k, s, rs, n + 1)

\* the alternatives xs[k..], in the order written
MatchAlt(xs, k, s, i, caps) ==
    IF k > Len(xs) THEN <<>>
    ELSE Match(xs[k], s, i, caps) \o MatchAlt(xs, k + 1, s, i, caps)

\* pattern re again after each of the matches rs[n..]
MatchEach(re, s, rs, n) ==
    IF n > Len(rs) THEN <<>>
    ELSE Match(re, s, rs[n].pos, rs[n].caps) \o MatchEach(re, s, rs, n + 1)

\* the offsets at which the pattern matches
MatchStarts(re, s) == {i \in 0..Len(s) : Match(re, s, i, <<>>) # <<>>}

\* re.findall(pattern, s, re.IGNORECASE)[0] for a pattern of n groups: the
\* groups of the leftmost match, a string when n = 1 and a tuple of
\* strings otherwise; found is whether findall's list is non-empty
FindFirst(re, n, s) ==
    LET starts == MatchStarts(re, s)
    IN  IF starts = {} THEN [found |-> FALSE]
        ELSE LET g == Match(re, s, SetMin(starts), <<>>)[1].caps
             IN  [found |-> TRUE, groups |-> n,
                  value |-> IF n = 1 THEN g[1] ELSE g]

\* matches[0][k-1]: an item of the tuple, or a character of the string
Item(m, k) == IF m.groups = 1 THEN <<m.value[k]>> ELSE m.value[k]

----------------------------------------------------------------------------
(* Python's float(), for the strings the patterns capture: digits with at  *)
(* most one period. A float is kept as the decimal it was read from,       *)
(* num / 10^scale with no trailing zero in the fraction, so that two       *)
(* strings give equal floats exactly when they denote the same number.     *)

DigitValue ==
    [c \in Digits |->
        CASE c = "0" -> 0 [] c = "1" -> 1 [] c = "2" -> 2 [] c = "3" -> 3
          [] c = "4" -> 4 [] c = "5" -> 5 [] c = "6" -> 6 [] c = "7" -> 7
          [] c = "8" -> 8 [] c = "9" -> 9]

RECURSIVE DigitsValue(_)
DigitsValue(ds) ==
    IF ds = <<>> THEN 0
    ELSE DigitsValue(SubSeq(ds, 1, Len(ds) - 1)) * 10 + DigitValue[ds[Len(ds)]]

RECURSIVE Normalised(_, _)
Normalised(n, k) ==
    IF k > 0 /\ n % 10 = 0 THEN Normalised(n \div 10, k - 1)
    ELSE [num |-> n, scale |-> k]

\* float(s) does not raise ValueError
FloatOk(s) ==
    /\ \A k \in 1..Len(s) : s[k] \in Digits \cup {"."}
    /\ Cardinality({k \in 1..Len(s) : s[k] = "."}) <= 1
    /\ \E k \in 1..Len(s) : s[k] \in Digits

\* float(s)
Float(s) ==
    LET ds == SelectSeq(s, LAMBDA c : c \in Digits)
        dots == {k \in 1..Len(s) : s[k] = "."}
        scale == IF dots = {} THEN 0 ELSE Len(s) - SetMax(dots)
    IN  Normalised(DigitsValue(ds), scale)

----------------------------------------------------------------------------
(* MetadataExtractor *)

Spaces == Star(Cls("s"))
\* (\d+\.?\d*)
Number == Grp(Cat(<<Plus(Cls("d")), Opt(Chr(".")), Star(Cls("d"))>>))
\* (0\.\d+)
Fraction == Grp(Cat(<<Chr("0"), Chr("."), Plus(Cls("d"))>>))
\* (?:=|:|between|of)?
RangeLead ==
    Opt(Alt(<<Chr("="), Chr(":"), Lit(<<"b", "e", "t", "w", "e", "e", "n">>),
              Lit(<<"o", "f">>)>>))
\* (?:=|:|of)?
ValueLead == Opt(Alt(<<Chr("="), Chr(":"), Lit(<<"o", "f">>)>>))
\* (?:endash|-|to)?
RangeSep == Opt(Alt(<<Chr("endash"), Chr("-"), Lit(<<"t", "o">>)>>))
\* (?:aW|aw|water\s*activity)
AwKeyword ==
    Alt(<<Lit(<<"a", "W">>), Lit(<<"a", "w">>),
          Cat(<<Lit(<<"w", "a", "t", "e", "r">>), Spaces,
                Lit(<<"a", "c", "t", "i", "v", "i", "t", "y">>)>>)>>)

\* the patterns of extract_ph_range, each with its number of groups
PhPatterns ==
    <<[re |-> Cat(<<Lit(<<"p", "H">>), Spaces, RangeLead, Spaces, Number,
                    Spaces, RangeSep, Spaces, Number>>), groups |-> 2],
      [re |-> Cat(<<Lit(<<"p", "H">>), Spaces, ValueLead, Spaces, Number>>),
       groups |-> 1]>>

\* the patterns of extract_aw
AwPatterns ==
    <<[re |-> Cat(<<AwKeyword, Spaces, RangeLead, Spaces, Fraction,
                    Spaces, RangeSep, Spaces, Fraction>>), groups |-> 2],
      [re |-> Cat(<<AwKeyword, Spaces, ValueLead, Spaces, Fraction>>),
       groups |-> 1]>>

\* (ppm|mg/kg|%|g/kg|muL/g)
Unit ==
    Grp(Alt(<<Lit(<<"p", "p", "m">>), Lit(<<"m", "g", "/", "k", "g">>),
              Chr("%"), Lit(<<"g", "/", "k", "g">>),
              Lit(<<"mu", "L", "/", "g">>)>>))

\* the pattern of extract_concentration
ConcentrationPattern == Cat(<<Number, Spaces, Unit>>)

\* the units as the pattern spells them
Units ==
    {<<"p", "p", "m">>, <<"m", "g", "/", "k", "g">>, <<"%">>,
     <<"g", "/", "k", "g">>, <<"mu", "L", "/", "g">>}

\* what one pass of the for loop of extract_ph_range and extract_aw does
\* with its pattern: the dictionary it returns, or Continue
Continue == [continue |-> TRUE]

\* {lo: a, hi: b} and {key: v}
RangeDict(lo, hi, a, b) == (lo :> a) @@ (hi :> b)
ValueDict(key, v) == (key :> v)

\* an exception that leaves the function
Raised(e) == [raised |-> e]
ValueError == Raised("ValueError")
Raises(x) == "raised" \in DOMAIN x

\* try: return value, with the float() calls of value not raising when ok;
\* TryUncaught is the same statement without its except clause
TryUncaught(ok, value) == IF ok THEN value ELSE ValueError
\* try: return value / except ValueError: continue
Try(ok, value) == IF ok THEN value ELSE Continue

Tier(p, s, lo, hi, single) ==
    LET m == FindFirst(p.re, p.groups, s)
    IN  IF ~m.found THEN Continue
        ELSE IF Len(m.value) = 2
        THEN Try(FloatOk(Item(m, 1)) /\ FloatOk(Item(m, 2)),
                 RangeDict(lo, hi, Float(Item(m, 1)), Float(Item(m, 2))))
        ELSE Try(FloatOk(m.value), ValueDict(single, Float(m.value)))

\* the for loop over the patterns, from pattern k on
RECURSIVE Tiers(_, _, _, _, _, _)
Tiers(ps, k, s, lo, hi, single) ==
    IF k > Len(ps) THEN None
    ELSE LET r == Tier(ps[k], s, lo, hi, single)
         IN  IF r = Continue THEN Tiers(ps, k + 1, s, lo, hi, single) ELSE r

extract_ph_range(s) == Tiers(PhPatterns, 1, s, "ph_min", "ph_max", "ph_value")

extract_aw(s) == Tiers(AwPatterns, 1, s, "aw_min", "aw_max", "aw_value")

extract_concentration(s) ==
    LET m == FindFirst(ConcentrationPattern, 2, s)
    IN  IF m.found
        THEN IF FloatOk(m.value[1])
             THEN [concentration_value |-> Float(m.value[1]),
                   concentration_unit |-> m.value[2]]
             ELSE ValueError
        ELSE None

\* needle in hay
Contains(hay, needle) ==
    \E i \in 1..(Len(hay) - Len(needle) + 1) :
        SubSeq(hay, i, i + Len(needle) - 1) = needle

Microorganisms ==
    <<<<"Z", "y", "g", "o", "s", "a", "c", "c", "h", "a", "r", "o", "m", "y", "c", "e", "s", " ", "b", "a", "i", "l", "i", "i">>,
      <<"E", ".", " ", "c", "o", "l", "i">>,
      <<"S", "a", "l", "m", "o", "n", "e", "l", "l", "a">>,
      <<"L", "i", "s", "t", "e", "r", "i", "a">>,
      <<"S", "t", "a", "p", "h", "y", "l", "o", "c", "o", "c", "c", "u", "s", " ", "a", "u", "r", "e", "u", "s">>,
      <<"C", "l", "o", "s", "t", "r", "i", "d", "i", "u", "m">>,
      <<"P", "s", "e", "u", "d", "o", "m", "o", "n", "a", "s">>,
      <<"B", "a", "c", "i", "l", "l", "u", "s">>,
      <<"l", "e", "v", "a", "d", "u", "r", "a">>,
      <<"b", "a", "c", "t", "e", "r", "i", "a">>,
      <<"h", "o", "n", "g", "o">>,
      <<"m", "o", "h", "o">>,
      <<"p", "a", "t", "o_acute", "g", "e", "n", "o">>>>

Conservants ==
    <<<<"b", "e", "n", "z", "o", "a", "t", "o">>,
      <<"s", "o", "r", "b", "a", "t", "o">>,
      <<"n", "i", "s", "i", "n", "a">>,
      <<"e", "x", "t", "r", "a", "c", "t", "o">>,
      <<"a", "c", "e", "i", "t", "e", " ", "e", "s", "e", "n", "c", "i", "a", "l">>,
      <<"e", "s", "s", "e", "n", "t", "i", "a", "l", " ", "o", "i", "l">>,
      <<"e", "u", "g", "e", "n", "o", "l">>,
      <<"c", "a", "r", "v", "a", "c", "r", "o", "l">>,
      <<"t", "i", "m", "o", "l">>,
      <<"a_acute", "c", "i", "d", "o", " ", "s", "o_acute", "r", "b", "i", "c", "o">>,
      <<"a_acute", "c", "i", "d", "o", " ", "b", "e", "n", "z", "o", "i", "c", "o">>>>

\* the same search, stopping at the first entry found
MentionsFirst(names, s) ==
    LET found == SelectSeq(names, LAMBDA n : Contains(Lower(s), Lower(n)))
    IN  IF found # <<>> THEN <<found[1]>> ELSE None

\* the entries of names that occur in s, in the order of names; None if none
Mentions(names, s) ==
    LET found == SelectSeq(names, LAMBDA n : Contains(Lower(s), Lower(n)))
    IN  IF found # <<>> THEN found ELSE None

extract_microorganism(s) == Mentions(Microorganisms, s)

extract_conservant(s) == Mentions(Conservants, s)

\* a bool() that is true of None too
BoolOfAnything(x) == TRUE \/ x = None
\* bool(x) of a dictionary or None
Bool(x) == x # None

\* a record of the metadata alone
OnlyMetadata(chunk, metadata) == [extracted_metadata |-> metadata]

\* {**chunk, "extracted_metadata": metadata}
WithMetadata(chunk, metadata) ==
    [k \in DOMAIN chunk \cup {"extracted_metadata"} |->
        IF k = "extracted_metadata" THEN metadata ELSE chunk[k]]

\* the record, or the exception one of the rules raised
extract_chunk_metadata(chunk) ==
    LET s == Get(chunk, "content", <<>>)
        ph == extract_ph_range(s)
        aw == extract_aw(s)
        concentration == extract_concentration(s)
    IN  IF Raises(ph) THEN ph
        ELSE IF Raises(aw) THEN aw
        ELSE IF Raises(concentration) THEN concentration
        ELSE WithMetadata(chunk,
                [ph |-> ph,
                 aw |-> aw,
                 concentration |-> concentration,
                 microorganisms |-> extract_microorganism(s),
                 conservants |-> extract_conservant(s),
                 has_numeric_data |-> Bool(extract_concentration(s))])

\* the text of example 5 and of the extraction example
ExampleText ==
    <<"p", "H", " ", "4", ".", "2", " ", "a", "W", " ", "0", ".", "9", "7", ",", " ", "8", "0", "0", " ", "p", "p", "m", " ", "S", "o", "d", "i", "u", "m", " ", "B", "e", "n", "z", "o", "a", "t", "e", " ", "i", "n", "h", "i", "b", "i", "t", "s", " ", "Z", "y", "g", "o", "s", "a", "c", "c", "h", "a", "r", "o", "m", "y", "c", "e", "s", " ", "b", "a", "i", "l", "i", "i">>

\* the pieces the texts given to the extractor are put together from
Tokens ==
    {<<"p", "H">>, <<" ">>, <<"4">>, <<".">>, <<"4", ".", "2">>, <<"-", "5">>,
     <<"a", "W">>, <<"0", ".", "9", "7">>, <<"p", "p", "m">>,
     <<"P", "P", "M">>}

\* most pieces in a text
MaxTokens == 3

RECURSIVE Flatten(_)
Flatten(ws) == IF ws = <<>> THEN <<>> ELSE Head(ws) \o Flatten(Tail(ws))

\* the pieces the texts that mention organisms and preservatives are put
\* together from
NameTokens ==
    {<<"m", "o", "h", "o">>, <<"H", "o", "n", "g", "o">>,
     <<"t", "i", "m", "o", "l">>, <<"E", "U", "G", "E", "N", "O", "L">>,
     <<" ">>}

ExtractorTexts ==
    {ExampleText}
        \cup {Flatten(ws) : ws \in UNION {[1..n -> Tokens] : n \in 0..MaxTokens}}
        \cup {Flatten(ws) :
                 ws \in UNION {[1..n -> NameTokens] : n \in 0..MaxTokens}}

\* the chunks given to the extractor: a record with or without content
ExtractorChunks ==
    {[id |-> "c", content |-> s] : s \in ExtractorTexts} \cup {[id |-> "c"]}

\* the chunks the lists given to process_chunks are made of: chunks of the
\* chunker, a record with no content, and a chunk process_chunks has
\* already processed
BatchChunks ==
    {NewChunk(<<"d">>, 0, 0, 2, <<"4", "%">>),
     NewChunk(<<"d">>, 1, 0, 4, <<"m", "o", "h", "o">>),
     [id |-> "c"],
     extract_chunk_metadata(NewChunk(<<"d">>, 2, 0, 4, <<"p", "H", " ", "4">>))}

\* most chunks in a list given to process_chunks
MaxBatch == 2

ProcessInputs == UNION {[1..n -> BatchChunks] : n \in 0..MaxBatch}

\* the default DocumentChunker() of the pipeline, idle
ChunkerIdle ==
    /\ chunk_size = DocumentChunker(500, 50).chunk_size
    /\ overlap = DocumentChunker(500, 50).overlap
    /\ pc = "idle"
    /\ caller = "none"
    /\ documents = NoDocuments
    /\ doc_i = 0
    /\ all_chunks = <<>>
    /\ text = <<>>
    /\ prefix = <<>>
    /\ start = 0
    /\ chunk_count = 0
    /\ chunks = <<>>
    /\ more = FALSE
    /\ skipped = FALSE
    /\ parity = 0

InitExtractor ==
    /\ ChunkerIdle
    /\ ExtractorIdle
    /\ BenchmarkIdle

\* a caller calls extract_chunk_metadata(chunk)
CallExtractChunkMetadata ==
    /\ ex_pc = "idle"
    /\ \E chunk \in ExtractorChunks : ex_chunk' = chunk /\ ex_given' = chunk
    /\ ex_pc' = "called"
    /\ UNCHANGED <<ex_result, pr_chunks, pr_i, processed_chunks>>
    /\ UNCHANGED <<chunkerVars, benchmarkVars>>

\* extract_chunk_metadata runs and returns, or raises
ExtractChunkMetadata ==
    /\ ex_pc = "called"
    /\ ex_result' = extract_chunk_metadata(ex_chunk)
    /\ ex_pc' = IF Raises(ex_result') THEN "raised" ELSE "done"
    /\ UNCHANGED <<ex_chunk, pr_chunks, pr_i, processed_chunks, ex_given>>
    /\ UNCHANGED <<chunkerVars, benchmarkVars>>

\* a caller calls process_chunks(chunks); processed_chunks = []
CallProcessChunks ==
    /\ ex_pc = "idle"
    /\ \E cs \in ProcessInputs : pr_chunks' = cs /\ ex_given' = cs
    /\ pr_i' = 1
    /\ processed_chunks' = <<>>
    /\ ex_pc' = "process_chunks"
    /\ UNCHANGED <<ex_chunk, ex_result>>
    /\ UNCHANGED <<chunkerVars, benchmarkVars>>

\* one pass of the for loop of process_chunks: extract_chunk_metadata
\* returns processed, which is appended, or raises
ProcessChunksStep ==
    /\ ex_pc = "process_chunks"
    /\ pr_i <= Len(pr_chunks)
    /\ ex_result' = extract_chunk_metadata(pr_chunks[pr_i])
    /\ IF Raises(ex_result')
       THEN /\ ex_pc' = "raised"
            /\ UNCHANGED <<pr_i, processed_chunks>>
       ELSE /\ processed_chunks' = Append(processed_chunks, ex_result')
            /\ pr_i' = pr_i + 1
            /\ UNCHANGED ex_pc
    /\ UNCHANGED <<ex_chunk, pr_chunks, ex_given>>
    /\ UNCHANGED <<chunkerVars, benchmarkVars>>

\* the for loop of process_chunks is over: return processed_chunks
ProcessChunksReturn ==
    /\ ex_pc = "process_chunks"
    /\ pr_i > Len(pr_chunks)
    /\ ex_pc' = "returned"
    /\ UNCHANGED <<ex_chunk, ex_result, pr_chunks, pr_i, processed_chunks,
                   ex_given>>
    /\ UNCHANGED <<chunkerVars, benchmarkVars>>

NextExtractor ==
    \/ CallExtractChunkMetadata
    \/ ExtractChunkMetadata
    \/ CallProcessChunks
    \/ ProcessChunksStep
    \/ ProcessChunksReturn

SpecExtractor == InitExtractor /\ [][NextExtractor]_vars

----------------------------------------------------------------------------
(* RAGBenchmark *)

\* a number of the metrics, num / den in lowest terms with den > 0
RECURSIVE GCD(_, _)
GCD(a, b) == IF b = 0 THEN a ELSE GCD(b, a % b)

Ratio(n, d) == [num |-> n \div GCD(n, d), den |-> d \div GCD(n, d)]

\* the 0 the functions return on their guards
Zero == Ratio(0, 1)
One == Ratio(1, 1)

\* x <= y, x < y
Leq(x, y) == x.num * y.den <= y.num * x.den
Less(x, y) == x.num * y.den < y.num * x.den

ZeroDivisionError == Raised("ZeroDivisionError")

\* n / d
Div(n, d) == IF d = 0 THEN ZeroDivisionError ELSE Ratio(n, d)

\* rid in relevant
InList(rid, rel) == \E i \in 1..Len(rel) : rel[i] = rid

\* the ranks of retrieved[:k], from 1, whose id is in relevant
RelevantRanks(rs, rel, k) ==
    LET top == Slice(rs, 0, k)
    IN  {rank \in 1..Len(top) : InList(top[rank].id, rel)}

\* sum(1 for rid in retrieved_ids if rid in relevant)
RelevantRetrieved(rs, rel, k) ==
    Cardinality(RelevantRanks(rs, rel, k))

calculate_precision_at_k(rs, rel, k) ==
    IF k > 0 THEN Div(RelevantRetrieved(rs, rel, k), k) ELSE Zero

\* the same return statement without its guard
RecallUnguarded(rs, rel, k) ==
    Div(RelevantRetrieved(rs, rel, k), Len(rel))

calculate_recall_at_k(rs, rel, k) ==
    IF Len(rel) > 0
    THEN Div(RelevantRetrieved(rs, rel, k), Len(rel))
    ELSE Zero

\* the ranks of retrieved, from 1, whose id is in relevant
AllRelevantRanks(rs, rel) ==
    {rank \in 1..Len(rs) : InList(rs[rank].id, rel)}

\* the same loop with enumerate(retrieved), ranks from 0
MrrFromRankZero(rs, rel) ==
    LET ranks == AllRelevantRanks(rs, rel)
    IN  IF ranks # {} THEN Div(1, SetMin(ranks) - 1) ELSE Zero

calculate_mrr(rs, rel) ==
    LET ranks == AllRelevantRanks(rs, rel)
    IN  IF ranks # {} THEN Div(1, SetMin(ranks)) ELSE Zero

\* 1 / np.log2(rank + 1), in thousandths
Discount ==
    <<1000, 631, 500, 431, 387, 356, 333, 315, 301, 289, 279, 270, 263, 256>>

\* the sum of the discounts of a set of ranks
RECURSIVE Gain(_)
Gain(ranks) ==
    IF ranks = {} THEN 0
    ELSE LET r == SetMax(ranks) IN Gain(ranks \ {r}) + Discount[r]

\* the same function with the gain of a hit growing with its rank
NdcgRewardingLateHits(rs, rel, k) ==
    LET hits == RelevantRanks(rs, rel, k)
        dcg == Gain({Len(Discount) + 1 - r : r \in hits})
        idcg == Gain(1..Min(Len(rel), k))
    IN  IF idcg > 0 THEN Div(dcg, idcg) ELSE Zero

calculate_ndcg(rs, rel, k) ==
    LET dcg == Gain(RelevantRanks(rs, rel, k))
        idcg == Gain(1..Min(Len(rel), k))
    IN  IF idcg > 0 THEN Div(dcg, idcg) ELSE Zero

\* x + y, over the least common denominator
Plus2(x, y) ==
    LET den == (x.den \div GCD(x.den, y.den)) * y.den
    IN  Ratio(x.num * (den \div x.den) + y.num * (den \div y.den), den)

\* np.mean of a non-empty list
RECURSIVE Total(_)
Total(xs) == IF xs = <<>> THEN Zero ELSE Plus2(Head(xs), Total(Tail(xs)))

\* the same call without the division by the length
SumNotMean(xs) == Total(xs)

Mean(xs) == LET t == Total(xs) IN Ratio(t.num, t.den * Len(xs))

\* the metrics dictionary of evaluate_query, or the first exception raised
\* while it is built
Metrics(query, rel, rs) ==
    LET p5 == calculate_precision_at_k(rs, rel, 5)
        p10 == calculate_precision_at_k(rs, rel, 10)
        r5 == calculate_recall_at_k(rs, rel, 5)
        r10 == calculate_recall_at_k(rs, rel, 10)
        mrr == calculate_mrr(rs, rel)
        n5 == calculate_ndcg(rs, rel, 5)
        n10 == calculate_ndcg(rs, rel, 10)
        parts == <<p5, p10, r5, r10, mrr, n5, n10>>
        failed == {i \in 1..Len(parts) : Raises(parts[i])}
    IN  IF failed # {} THEN parts[SetMin(failed)]
        ELSE [query |-> query,
              num_relevant |-> Len(rel),
              num_retrieved |-> Len(rs),
              precision_at_5 |-> p5,
              precision_at_10 |-> p10,
              recall_at_5 |-> r5,
              recall_at_10 |-> r10,
              mrr |-> mrr,
              ndcg_at_5 |-> n5,
              ndcg_at_10 |-> n10,
              avg_similarity_score |->
                  IF rs # <<>>
                  THEN Mean([i \in 1..Len(rs) |->
                                rs[i].similarity_score])
                  ELSE Zero]

\* the same statement as insert(0, metrics)
AccumulateInFront(rs, metrics) == <<metrics>> \o rs

\* self.results.append(metrics)
Accumulate(rs, metrics) == Append(rs, metrics)

\* the same call inside try/except, a record of the failure appended
\* before the exception is raised again
RecordAndPropagate(rs, e) == [results |-> Append(rs, e), value |-> e]

\* an exception leaves evaluate_query at the call of the retriever: no
\* statement after it runs, self.results is as it was and the caller gets
\* the exception
Propagate(rs, e) == [results |-> rs, value |-> e]

\* the decimals of round(aggregated[key], 4)
RoundDigits == 4

\* floor(x * 10^digits) and the numerator left over, by long division
RECURSIVE Shifted(_, _)
Shifted(x, digits) ==
    IF digits = 0
    THEN [quot |-> x.num \div x.den, rest |-> x.num % x.den]
    ELSE LET s == Shifted(x, digits - 1)
         IN  [quot |-> s.quot * 10 + (s.rest * 10) \div x.den,
              rest |-> (s.rest * 10) % x.den]

\* round(x, digits) of a float: the nearest multiple of 10^-digits, and
\* of two equally near the even one
Round(x, digits) ==
    LET s == Shifted(x, digits)
        up == \/ 2 * s.rest > x.den
              \/ 2 * s.rest = x.den /\ s.quot % 2 = 1
    IN  Ratio(s.quot + (IF up THEN 1 ELSE 0), 10 ^ digits)

\* [r[field] for r in self.results]
Column(rs, field) == [i \in 1..Len(rs) |-> rs[i][field]]

\* np.mean of a field of the records, rounded by the loop over aggregated
Average(rs, field) == Round(Mean(Column(rs, field)), RoundDigits)

\* {"error": "No results to aggregate"}
NoResults == [error |-> "No results to aggregate"]

\* the aggregated dictionary of get_aggregated_metrics, its floats
\* rounded
Averages(rs) ==
    [total_queries |-> Len(rs),
     avg_precision_at_5 |-> Average(rs, "precision_at_5"),
     avg_precision_at_10 |-> Average(rs, "precision_at_10"),
     avg_recall_at_5 |-> Average(rs, "recall_at_5"),
     avg_recall_at_10 |-> Average(rs, "recall_at_10"),
     avg_mrr |-> Average(rs, "mrr"),
     avg_ndcg_at_5 |-> Average(rs, "ndcg_at_5"),
     avg_ndcg_at_10 |-> Average(rs, "ndcg_at_10"),
     avg_similarity_score |-> Average(rs, "avg_similarity_score")]

\* the same function averaging the last record only
AggregateLastOnly(rs) ==
    [results |-> rs,
     value |-> IF rs = <<>> THEN NoResults
               ELSE Averages(SubSeq(rs, Len(rs), Len(rs)))]

\* the same function emptying self.results once it has aggregated them
AggregateAndClear(rs) ==
    [results |-> <<>>,
     value |-> IF rs = <<>> THEN NoResults ELSE Averages(rs)]

\* the same function with an aggregate of no queries in place of the
\* error
AggregateOfNothing(rs) ==
    [results |-> rs,
     value |-> IF rs = <<>> THEN [total_queries |-> 0] ELSE Averages(rs)]

\* get_aggregated_metrics on self.results = rs: what it returns, and
\* self.results after it
get_aggregated_metrics(rs) ==
    [results |-> rs,
     value |-> IF rs = <<>> THEN NoResults ELSE Averages(rs)]

\* n_results=k * 2
NResults(k) == k * 2

\* k: int = 5
DefaultK == 5

\* the k of the metrics evaluate_query computes
Cutoffs == {5, 10}

\* the ids of the collection
Ids == {"a", "b", "c"}

\* an entry of a retrieved list
Hit(id, score) == [id |-> id, similarity_score |-> Ratio(score, 100)]

\* most entries in a retrieved list given to the calculate_ functions,
\* most ids in their relevant list, and their largest k
MaxRetrieved == 3
MaxRelevant == 2
MaxK == 3

\* the retrieved lists given to the calculate_ functions, ids repeated or
\* not
RetrievedLists ==
    UNION {[1..n -> {Hit(id, 50) : id \in Ids}] : n \in 0..MaxRetrieved}

\* their relevant lists, ids repeated or not
RelevantLists == UNION {[1..n -> Ids] : n \in 0..MaxRelevant}

\* what the retriever has for each query, best first: more than any
\* request asks for, fewer than five, nothing
Ranking ==
    [q1 |-> <<"a", "n1", "b", "n2", "n3", "c", "n4", "n5", "n6", "n7", "d",
              "n8", "e">>,
     q2 |-> <<"n1", "a", "b", "c">>,
     q3 |-> <<>>]

Queries == DOMAIN Ranking

\* the relevant_ids given to evaluate_query: none, two of the top five of
\* q1, the same with an id repeated, three of the top five of q2
QueryRelevant ==
    {<<>>, <<"a", "b">>, <<"a", "a", "b">>, <<"a", "b", "c">>}

\* the k given to evaluate_query: one below the cutoffs, and the default
Ks == {1, DefaultK}

\* most records the accumulator holds
MaxResults == 2

\* SimpleRetriever.retrieve(query, n_results): the first n_results of the
\* ranking, each with its similarity score
Retrieve(query, n) ==
    LET ids == Slice(Ranking[query], 0, n)
    IN  [i \in 1..Len(ids) |-> Hit(ids[i], 100 - 5 * i)]

\* the failure of a retriever that fails
SearchError == Raised("SearchError")

InitBenchmark ==
    /\ ChunkerIdle
    /\ ExtractorIdle
    /\ BenchmarkIdle

\* no call of the evaluator is running
BenchmarkAtRest == bm_pc \in {"idle", "returned", "raised"}

\* a caller calls one of the calculate_ functions, which returns value
Calculate(fn, rs, rel, k, value) ==
    /\ bm_fn' = fn
    /\ retrieved' = rs
    /\ relevant_ids' = rel
    /\ bm_k' = k
    /\ bm_value' = value
    /\ bm_pc' = "returned"
    /\ UNCHANGED <<results, bm_query, n_results, searches, batchVars>>
    /\ UNCHANGED <<chunkerVars, extractorVars>>

CalculatePrecisionAtK ==
    /\ bm_pc = "idle"
    /\ \E rs \in RetrievedLists, rel \in RelevantLists, k \in 0..MaxK :
           Calculate("calculate_precision_at_k", rs, rel, k,
                     calculate_precision_at_k(rs, rel, k))

CalculateRecallAtK ==
    /\ bm_pc = "idle"
    /\ \E rs \in RetrievedLists, rel \in RelevantLists, k \in 0..MaxK :
           Calculate("calculate_recall_at_k", rs, rel, k,
                     calculate_recall_at_k(rs, rel, k))

CalculateMrr ==
    /\ bm_pc = "idle"
    /\ \E rs \in RetrievedLists, rel \in RelevantLists :
           Calculate("calculate_mrr", rs, rel, 0, calculate_mrr(rs, rel))

CalculateNdcg ==
    /\ bm_pc = "idle"
    /\ \E rs \in RetrievedLists, rel \in RelevantLists, k \in 0..MaxK :
           Calculate("calculate_ndcg", rs, rel, k, calculate_ndcg(rs, rel, k))

NextMetrics ==
    \/ CalculatePrecisionAtK
    \/ CalculateRecallAtK
    \/ CalculateMrr
    \/ CalculateNdcg

SpecMetrics == InitBenchmark /\ [][NextMetrics]_vars

\* most pairs in a list given to evaluate_multiple_queries
MaxPairs == 2

\* most calls of get_aggregated_metrics in a row that are told apart
MaxAggregations == 2

\* the (query, relevant_ids) of the lists given to
\* evaluate_multiple_queries: 2 of the top 5 relevant, 3 of the top 5
\* relevant, a relevant id repeated, nothing retrieved
Pairs ==
    {<<"q1", <<"a", "b">>>>, <<"q2", <<"a", "b", "c">>>>,
     <<"q1", <<"a", "a", "b">>>>, <<"q3", <<"a", "b">>>>}

\* the lists given to evaluate_multiple_queries
PairLists == UNION {[1..n -> Pairs] : n \in 0..MaxPairs}

\* evaluate_query(query, relevant_ids, k) is entered
EnterEvaluateQuery(q, rel, k) ==
    /\ bm_query' = q
    /\ relevant_ids' = rel
    /\ bm_k' = k
    /\ n_results' = NResults(k)
    /\ bm_pc' = "retrieve"
    /\ retrieved' = <<>>
    /\ searches' = 0
    /\ bm_value' = None

\* a caller calls evaluate_query(query, relevant_ids, k), k given or left
\* to its default
CallEvaluateQuery ==
    /\ BenchmarkAtRest
    /\ Len(results) < MaxResults
    /\ \E q \in Queries, rel \in QueryRelevant, k \in Ks :
          EnterEvaluateQuery(q, rel, k)
    /\ bm_fn' = "evaluate_query"
    /\ bm_outer' = "none"
    /\ query_relevance_pairs' = <<>>
    /\ pair_i' = 0
    /\ bm_base' = Len(results)
    /\ aggregations' = 0
    /\ UNCHANGED results
    /\ UNCHANGED <<chunkerVars, extractorVars>>

\* self.retriever.retrieve(query, n_results=k * 2) returns
RetrieveReturns ==
    /\ bm_pc = "retrieve"
    /\ retrieved' = Retrieve(bm_query, n_results)
    /\ searches' = searches + 1
    /\ bm_pc' = "metrics"
    /\ UNCHANGED <<results, bm_fn, bm_query, relevant_ids, bm_k, n_results,
                   bm_value, batchVars>>
    /\ UNCHANGED <<chunkerVars, extractorVars>>

\* self.retriever.retrieve raises, and so do evaluate_query and, when it
\* is the caller, evaluate_multiple_queries
RetrieveRaises ==
    /\ bm_pc = "retrieve"
    /\ searches' = searches + 1
    /\ LET after == Propagate(results, SearchError)
       IN  /\ results' = after.results
           /\ bm_value' = after.value
    /\ bm_pc' = "raised"
    /\ UNCHANGED <<bm_fn, bm_query, relevant_ids, bm_k, n_results, retrieved,
                   batchVars>>
    /\ UNCHANGED <<chunkerVars, extractorVars>>

\* the metrics are computed, appended to self.results and returned, to
\* the caller or to the for loop of evaluate_multiple_queries
EvaluateQueryReturn ==
    /\ bm_pc = "metrics"
    /\ bm_value' = Metrics(bm_query, relevant_ids, retrieved)
    /\ IF Raises(bm_value')
       THEN /\ bm_pc' = "raised"
            /\ UNCHANGED <<results, pair_i>>
       ELSE /\ results' = Accumulate(results, bm_value')
            /\ IF bm_outer = "evaluate_multiple_queries"
               THEN bm_pc' = "for_pairs" /\ pair_i' = pair_i + 1
               ELSE bm_pc' = "returned" /\ UNCHANGED pair_i
    /\ UNCHANGED <<bm_fn, bm_query, relevant_ids, bm_k, n_results, retrieved,
                   searches, bm_outer, query_relevance_pairs, bm_base,
                   aggregations>>
    /\ UNCHANGED <<chunkerVars, extractorVars>>

\* a caller calls evaluate_multiple_queries(query_relevance_pairs)
CallEvaluateMultipleQueries ==
    /\ BenchmarkAtRest
    /\ \E ps \in PairLists :
          /\ Len(results) + Len(ps) <= MaxResults
          /\ query_relevance_pairs' = ps
    /\ pair_i' = 1
    /\ bm_outer' = "evaluate_multiple_queries"
    /\ bm_fn' = "evaluate_multiple_queries"
    /\ bm_pc' = "for_pairs"
    /\ bm_base' = Len(results)
    /\ aggregations' = 0
    /\ bm_query' = "none"
    /\ relevant_ids' = <<>>
    /\ bm_k' = 0
    /\ n_results' = 0
    /\ retrieved' = <<>>
    /\ searches' = 0
    /\ bm_value' = None
    /\ UNCHANGED results
    /\ UNCHANGED <<chunkerVars, extractorVars>>

\* one pass of the for loop of evaluate_multiple_queries:
\* self.evaluate_query(query, relevant_ids), k left to its default
ForPairsStep ==
    /\ bm_pc = "for_pairs"
    /\ pair_i <= Len(query_relevance_pairs)
    /\ EnterEvaluateQuery(query_relevance_pairs[pair_i][1],
                          query_relevance_pairs[pair_i][2], DefaultK)
    /\ bm_fn' = "evaluate_query"
    /\ UNCHANGED <<results, batchVars>>
    /\ UNCHANGED <<chunkerVars, extractorVars>>

\* the for loop is over: return self.get_aggregated_metrics()
EvaluateMultipleQueriesReturn ==
    /\ bm_pc = "for_pairs"
    /\ pair_i > Len(query_relevance_pairs)
    /\ LET after == get_aggregated_metrics(results)
       IN  /\ results' = after.results
           /\ bm_value' = after.value
    /\ bm_fn' = "evaluate_multiple_queries"
    /\ bm_pc' = "returned"
    /\ UNCHANGED <<bm_query, relevant_ids, bm_k, n_results, retrieved,
                   searches, batchVars>>
    /\ UNCHANGED <<chunkerVars, extractorVars>>

\* a caller calls get_aggregated_metrics()
GetAggregatedMetrics ==
    /\ BenchmarkAtRest
    /\ LET after == get_aggregated_metrics(results)
       IN  /\ results' = after.results
           /\ bm_value' = after.value
    /\ bm_fn' = "get_aggregated_metrics"
    /\ bm_pc' = "returned"
    /\ bm_outer' = "none"
    /\ query_relevance_pairs' = <<>>
    /\ pair_i' = 0
    /\ bm_base' = Len(results)
    /\ aggregations' = Min(aggregations + 1, MaxAggregations)
    /\ bm_query' = "none"
    /\ relevant_ids' = <<>>
    /\ bm_k' = 0
    /\ n_results' = 0
    /\ retrieved' = <<>>
    /\ searches' = 0
    /\ UNCHANGED <<chunkerVars, extractorVars>>

NextBenchmark ==
    \/ CallEvaluateQuery
    \/ RetrieveReturns
    \/ RetrieveRaises
    \/ EvaluateQueryReturn
    \/ CallEvaluateMultipleQueries
    \/ ForPairsStep
    \/ EvaluateMultipleQueriesReturn
    \/ GetAggregatedMetrics

SpecBenchmark == InitBenchmark /\ [][NextBenchmark]_vars

----------------------------------------------------------------------------
(* The segmentation engine's claims *)

\* the configurations the segmenter's contract allows
ValidConfig == chunk_size > 0 /\ 0 <= overlap /\ overlap < chunk_size

\* position p of the text lies in the range of a recorded chunk
Covered(p) ==
    \E k \in 1..Len(chunks) : chunks[k].start_char <= p /\ p < chunks[k].end_char

\* C1: for every text and every valid configuration a chunk_text call
\* terminates: the cursor reaches len(text) and the list is returned.
C1_Terminates ==
    (caller = "chunk_text" /\ ValidConfig) ~> (pc = "done")

\* C2: a non-blank text shorter than chunk_size yields, for every valid
\* overlap, exactly one chunk, with start_char = 0 and end_char = len(text):
\* never a second chunk, and that one chunk when the call returns.
C2_ShortTextOneChunk ==
    (caller = "chunk_text" /\ ValidConfig /\ Strip(text) # <<>>
        /\ Len(text) < chunk_size)
    => /\ Len(chunks) <= 1
       /\ pc = "done" => /\ Len(chunks) = 1
                         /\ chunks[1].start_char = 0
                         /\ chunks[1].end_char = Len(text)

C4_OffsetsInText ==
    ValidConfig
    => \A k \in 1..Len(chunks) :
          /\ 0 <= chunks[k].start_char
          /\ chunks[k].start_char < chunks[k].end_char
          /\ chunks[k].end_char <= Len(text)

\* C5 as claimed: of two chunks emitted consecutively from one document the
\* later starts at the earlier's end_char minus the overlap, blank slices
\* skipped between them or not.
C5_ExactOverlap ==
    \A k \in 1..(Len(chunks) - 1) :
        chunks[k + 1].start_char = chunks[k].end_char - overlap

\* C5 as amended: of two chunks emitted consecutively from one document
\* with no blank slice skipped between them, the later starts at the
\* earlier's end_char minus the overlap.
C5_ExactOverlapUnlessSkipped ==
    [][(Len(chunks) >= 1 /\ Len(chunks') = Len(chunks) + 1 /\ ~skipped)
       => chunks'[Len(chunks')].start_char
            = chunks[Len(chunks)].end_char - overlap]_vars

\* C5's case: a second chunk emitted right after the first, with a
\* positive overlap
C5_Witness ==
    /\ overlap > 0
    /\ ValidConfig
    /\ Len(chunks) = 2
    /\ chunks[1].start_char = 0
    /\ chunks[2].start_char = chunks[1].end_char - overlap
    /\ chunks[2].start_char > 0

\* C6: the chunks of one document, in emission order, have non-decreasing
\* start_char.
C6_StartsNonDecreasing ==
    ValidConfig
    => \A k \in 1..(Len(chunks) - 1) :
          chunks[k].start_char <= chunks[k + 1].start_char

\* C7: with overlap >= chunk_size or chunk_size <= 0 the segmenter is
\* rejected before any segmentation: the loop is never entered and no chunk
\* is emitted.
C7_InvalidConfigRejected ==
    (overlap >= chunk_size \/ chunk_size <= 0)
    => /\ pc # "chunk_text"
       /\ chunks = <<>>
       /\ all_chunks = <<>>

\* C8: an empty text yields an empty chunk list with no loop iteration, and
\* in chunk_documents a document with empty content adds nothing to
\* all_chunks while the for loop moves on to the next document.
C8_EmptyTextNoChunks ==
    [][(pc = "chunk_text" /\ text = <<>>)
       => /\ chunks = <<>>
          /\ chunks' = <<>>
          /\ all_chunks' = all_chunks
          /\ IF caller = "chunk_documents"
             THEN /\ doc_i' = doc_i + 1
                  /\ IF doc_i < Len(documents)
                     THEN /\ pc' = "chunk_text"
                          /\ text' = documents[doc_i + 1].content
                     ELSE pc' = "done"
             ELSE pc' = "done"]_vars

\* C8's case: a batch whose first document is empty has returned with the
\* chunks of its second document
C8_Witness ==
    /\ caller = "chunk_documents" /\ pc = "done"
    /\ Len(documents) = 2
    /\ documents[1].content = <<>>
    /\ all_chunks # <<>>
    /\ \A k \in 1..Len(all_chunks) :
          all_chunks[k].source_file = documents[2].filename

----------------------------------------------------------------------------
(* The fact extractor's claims *)

\* the metadata of the record extract_chunk_metadata returned
Extracted == ex_result.extracted_metadata

\* the text extract_chunk_metadata read
Content == Get(ex_chunk, "content", <<>>)

\* C9: on the example text extraction yields the acidity scalar 4.2, the
\* water activity scalar 0.97, the concentration 800 ppm, the organism
\* Zygosaccharomyces bailii and has_numeric_data; and an acidity keyword
\* followed by a single decimal number yields that number as a scalar.
C9_ExampleExtraction ==
    ex_pc = "done"
    => /\ Content = ExampleText
          => /\ Extracted.ph = [ph_value |-> [num |-> 42, scale |-> 1]]
             /\ Extracted.aw = [aw_value |-> [num |-> 97, scale |-> 2]]
             /\ Extracted.concentration
                   = [concentration_value |-> [num |-> 800, scale |-> 0],
                      concentration_unit |-> <<"p", "p", "m">>]
             /\ Extracted.microorganisms # None
             /\ \E k \in 1..Len(Extracted.microorganisms) :
                   Extracted.microorganisms[k] = Microorganisms[1]
             /\ Extracted.has_numeric_data
       /\ \A n \in {<<"4">>, <<"4", ".", "2">>}, sp \in {<<>>, <<" ">>} :
             Content = <<"p", "H">> \o sp \o n
             => Extracted.ph = [ph_value |-> Float(n)]

\* C10: a concentration extract_concentration returns has a unit of the
\* fixed set, spelled as in the set, whatever the letter case of the text,
\* and it is the leftmost number-unit pair of the text.
C10_UnitOfFixedSet ==
    (ex_pc = "done" /\ Extracted.concentration # None)
    => /\ Extracted.concentration.concentration_unit \in Units
       /\ LET i == SetMin(MatchStarts(ConcentrationPattern, Content))
              g == Match(ConcentrationPattern, Content, i, <<>>)[1].caps
          IN  Extracted.concentration.concentration_value = Float(g[1])

\* C11: in every record extract_chunk_metadata produces, has_numeric_data
\* is true if and only if the concentration field is present (not None).
C11_NumericIffConcentration ==
    ex_pc = "done"
    => (Extracted.has_numeric_data <=> Extracted.concentration # None)

\* C11's case: a record with a concentration, flagged as numeric
C11_Witness ==
    /\ ex_pc = "done"
    /\ Extracted.concentration # None
    /\ Extracted.has_numeric_data

\* name n occurs in the text, letter case aside
Occurs(n) ==
    \E i \in 1..(Len(Content) - Len(n) + 1) :
        \A j \in 1..Len(n) : LowerChar(Content[i + j - 1]) = LowerChar(n[j])

\* the positions in names of the names that occur in the text
Listed(names) == {j \in 1..Len(names) : Occurs(names[j])}

\* the k-th smallest member of J
Nth(J, k) == CHOOSE j \in J : Cardinality({i \in J : i < j}) = k - 1

\* r is the list of the names that occur, once each and in the order of
\* names, or None when none occurs
InListOrder(r, names) ==
    IF Listed(names) = {} THEN r = None
    ELSE /\ Len(r) = Cardinality(Listed(names))
         /\ \A k \in 1..Len(r) : r[k] = names[Nth(Listed(names), k)]

\* C12: extract_microorganism and extract_conservant each return exactly
\* the entries of their list that occur in the text, letter case aside,
\* once each and in the order of the list whatever their order in the
\* text; None, never an empty list, when no entry occurs.
C12_MentionsInListOrder ==
    ex_pc = "done"
    => /\ InListOrder(Extracted.microorganisms, Microorganisms)
       /\ InListOrder(Extracted.conservants, Conservants)

\* C12's case: a text that names "moho" before "Hongo", and a
\* preservative, and gets hongo before moho
C12_Witness ==
    /\ ex_pc = "done"
    /\ Len(Content) >= 4 /\ SubSeq(Content, 1, 4) = <<"m", "o", "h", "o">>
    /\ Listed(Microorganisms) = {11, 12}
    /\ Extracted.microorganisms = <<Microorganisms[11], Microorganisms[12]>>
    /\ Listed(Conservants) = {9}
    /\ Extracted.conservants = <<Conservants[9]>>

\* the single-value acidity pattern is reached and what it matched fails
\* numeric conversion in the branch the code takes for it
PhConversionFails ==
    /\ ~FindFirst(PhPatterns[1].re, 2, Content).found
    /\ LET m == FindFirst(PhPatterns[2].re, 1, Content)
       IN  /\ m.found
           /\ IF Len(m.value) = 2
              THEN ~(FloatOk(Item(m, 1)) /\ FloatOk(Item(m, 2)))
              ELSE ~FloatOk(m.value)

\* C13: extract_chunk_metadata raises for no chunk, with or without a
\* content key; a pattern tier whose match fails numeric conversion counts
\* as no match, so that the rule goes on to the next tier or to None.
C13_NeverRaises ==
    /\ ex_pc # "raised"
    /\ (ex_pc = "done" /\ PhConversionFails) => Extracted.ph = None

\* C13's case: the acidity rule matched "4." and could not convert it
C13_Witness ==
    /\ ex_pc = "done"
    /\ PhConversionFails
    /\ Extracted.ph = None

\* record new carries every field of old but extracted_metadata, and
\* extracted_metadata, and no other
Carries(new, old) ==
    /\ DOMAIN new = DOMAIN old \cup {"extracted_metadata"}
    /\ \A key \in DOMAIN old \ {"extracted_metadata"} : new[key] = old[key]

\* C14: extract_chunk_metadata and process_chunks leave the chunk and the
\* list they were given unchanged; the records they return carry every
\* field of the input plus extracted_metadata, one per input chunk and in
\* the order of the input; extracting again from a returned record gives
\* an equal record.
C14_ExtractionIsPure ==
    /\ ex_pc \in {"called", "done"} => ex_chunk = ex_given
    /\ ex_pc = "done"
       => /\ Carries(ex_result, ex_chunk)
          /\ extract_chunk_metadata(ex_result) = ex_result
    /\ ex_pc \in {"process_chunks", "returned"}
       => /\ pr_chunks = ex_given
          /\ Len(processed_chunks) = pr_i - 1
          /\ \A k \in 1..Len(processed_chunks) :
                /\ Carries(processed_chunks[k], pr_chunks[k])
                /\ extract_chunk_metadata(processed_chunks[k])
                      = processed_chunks[k]
    /\ ex_pc = "returned" => Len(processed_chunks) = Len(pr_chunks)

\* C14's case: process_chunks has returned the records of a list of two
\* chunks, the second processed before
C14_Witness ==
    /\ ex_pc = "returned"
    /\ Len(pr_chunks) = 2
    /\ "extracted_metadata" \notin DOMAIN pr_chunks[1]
    /\ "extracted_metadata" \in DOMAIN pr_chunks[2]
    /\ Len(processed_chunks) = 2

----------------------------------------------------------------------------
(* The evaluator's claims *)

\* a calculate_ function has returned
Calculated(fn) == bm_pc = "returned" /\ bm_fn = fn

\* evaluate_query has returned its record
Evaluated == bm_pc = "returned" /\ bm_fn = "evaluate_query"

\* the ids of the first k entries of the retrieved list, as a set
TopIds(k) == {retrieved[i].id : i \in 1..Min(k, Len(retrieved))}

\* the ids of the relevant list, as a set
RelevantSet == {relevant_ids[i] : i \in 1..Len(relevant_ids)}

\* C15: for every retrieved list, shorter than k or with an id repeated,
\* every relevant list and every k > 0, calculate_precision_at_k is the
\* size of the intersection of the set of the top-k retrieved ids with
\* relevant_ids, divided by k; it is 0 for an empty retrieved list.
C15_PrecisionIsSetOverlap ==
    (Calculated("calculate_precision_at_k") /\ bm_k > 0)
    => /\ bm_value = Ratio(Cardinality(TopIds(bm_k) \cap RelevantSet), bm_k)
       /\ retrieved = <<>> => bm_value = Zero

\* a list without its repeated entries, first occurrences kept
RECURSIVE Dedup(_)
Dedup(xs) ==
    IF xs = <<>> THEN <<>>
    ELSE LET front == Dedup(SubSeq(xs, 1, Len(xs) - 1))
             last == xs[Len(xs)]
         IN  IF InList(last, front) THEN front ELSE Append(front, last)

\* C16: a relevant_ids with repeated ids gives the same recall@k, NDCG@k
\* and num_relevant as the list without the repetitions.
C16_RelevantIsASet ==
    Evaluated
    => LET once == Metrics(bm_query, Dedup(relevant_ids), retrieved)
       IN  /\ bm_value.recall_at_5 = once.recall_at_5
           /\ bm_value.recall_at_10 = once.recall_at_10
           /\ bm_value.ndcg_at_5 = once.ndcg_at_5
           /\ bm_value.ndcg_at_10 = once.ndcg_at_10
           /\ bm_value.num_relevant = once.num_relevant

\* C17: with an empty relevant_ids evaluate_query raises for no retrieved
\* list; its record has recall 0 and NDCG 0 at both cutoffs and is
\* appended to the accumulator.
C17_EmptyRelevantScoresZero ==
    (bm_fn = "evaluate_query" /\ relevant_ids = <<>>)
    => /\ bm_pc = "raised" => bm_value = SearchError
       /\ bm_pc = "returned"
          => /\ bm_value.recall_at_5 = Zero /\ bm_value.recall_at_10 = Zero
             /\ bm_value.ndcg_at_5 = Zero /\ bm_value.ndcg_at_10 = Zero
             /\ results # <<>>
             /\ results[Len(results)] = bm_value

\* C17's case: a query with no relevant id and a retrieved list that is
\* not empty adds the second record of the accumulator
C17_Witness ==
    /\ Evaluated
    /\ relevant_ids = <<>>
    /\ retrieved # <<>>
    /\ Len(results) = 2
    /\ results[2].recall_at_5 = Zero

\* C18: calculate_mrr returns 1/r for the rank r, from 1, of the first
\* entry of the whole retrieved list whose id is relevant; 0 when there is
\* none, 1 when the first entry is relevant.
C18_MrrIsReciprocalRank ==
    Calculated("calculate_mrr")
    => LET hits == {r \in 1..Len(retrieved) : retrieved[r].id \in RelevantSet}
       IN  /\ hits = {} => bm_value = Zero
           /\ \A r \in hits :
                 (\A h \in hits : r <= h) => bm_value = [num |-> 1, den |-> r]
           /\ 1 \in hits => bm_value = One

\* C18's case: the first relevant entry is the third and last of the list
C18_Witness ==
    /\ Calculated("calculate_mrr")
    /\ Len(retrieved) = 3
    /\ retrieved[1].id \notin RelevantSet
    /\ retrieved[2].id \notin RelevantSet
    /\ retrieved[3].id \in RelevantSet
    /\ bm_value = [num |-> 1, den |-> 3]

\* the list with its entries i and j exchanged
Swap(xs, i, j) ==
    [n \in 1..Len(xs) |-> IF n = i THEN xs[j] ELSE IF n = j THEN xs[i] ELSE xs[n]]

\* C19: for fixed relevant_ids and k, exchanging a relevant entry of the
\* retrieved list with the entry at an earlier rank never decreases
\* calculate_ndcg.
C19_NdcgMonotone ==
    Calculated("calculate_ndcg")
    => \A j \in 1..Len(retrieved), i \in 1..Len(retrieved) :
          (i < j /\ retrieved[j].id \in RelevantSet)
          => Leq(bm_value,
                 calculate_ndcg(Swap(retrieved, i, j), relevant_ids, bm_k))

\* C19's case: a relevant entry below an entry that is not relevant, and a
\* strictly larger NDCG once the two are exchanged
C19_Witness ==
    /\ Calculated("calculate_ndcg")
    /\ \E j \in 1..Len(retrieved), i \in 1..Len(retrieved) :
          /\ i < j
          /\ retrieved[j].id \in RelevantSet
          /\ retrieved[i].id \notin RelevantSet
          /\ Less(bm_value,
                  calculate_ndcg(Swap(retrieved, i, j), relevant_ids, bm_k))

\* C20: every evaluate_query, with the default k or a k of the caller,
\* asks the retriever for strictly more candidates than the largest
\* cutoff it scores, calls it once, and computes every metric of its
\* record from the list that call returned.
C20_RequestsPastLargestCutoff ==
    (bm_fn = "evaluate_query" /\ bm_pc \in {"retrieve", "metrics", "returned"})
    => /\ n_results > SetMax(Cutoffs)
       /\ searches <= 1
       /\ bm_pc = "returned"
          => /\ searches = 1
             /\ bm_value = Metrics(bm_query, relevant_ids, retrieved)

\* xs is the beginning of ys
IsPrefix(xs, ys) == Len(xs) <= Len(ys) /\ SubSeq(ys, 1, Len(xs)) = xs

\* evaluate_multiple_queries is running or has ended
InBatch == bm_outer = "evaluate_multiple_queries"

\* the accumulator holds, after the records it held at the call, one
\* record for each pair the for loop has passed, in their order
BatchRecorded ==
    /\ Len(results) = bm_base + pair_i - 1
    /\ \A j \in 1..(pair_i - 1) :
           /\ results[bm_base + j].query = query_relevance_pairs[j][1]
           /\ results[bm_base + j].num_relevant =
                  Len(query_relevance_pairs[j][2])

\* C21: over every step of every call of evaluate_query,
\* evaluate_multiple_queries and get_aggregated_metrics the accumulator
\* keeps its records as they were and in their places, so its length
\* never decreases; a successful evaluate_query appends exactly its
\* record at the end; and evaluate_multiple_queries has appended one
\* record per pair passed, in input order.
C21_AppendOnly ==
    [][/\ IsPrefix(results, results')
       /\ (bm_pc = "metrics" /\ bm_pc' \in {"returned", "for_pairs"})
              => results' = Append(results, bm_value')
       /\ InBatch' => BatchRecorded']_vars

\* evaluate_multiple_queries has returned after two pairs with different
\* queries
C21_Witness ==
    /\ bm_pc = "returned"
    /\ bm_fn = "evaluate_multiple_queries"
    /\ Len(query_relevance_pairs) = 2
    /\ query_relevance_pairs[1][1] # query_relevance_pairs[2][1]
    /\ Len(results) = 2

\* the field of the records each field of the aggregate averages
AvgFields ==
    [avg_precision_at_5 |-> "precision_at_5",
     avg_precision_at_10 |-> "precision_at_10",
     avg_recall_at_5 |-> "recall_at_5",
     avg_recall_at_10 |-> "recall_at_10",
     avg_mrr |-> "mrr",
     avg_ndcg_at_5 |-> "ndcg_at_5",
     avg_ndcg_at_10 |-> "ndcg_at_10",
     avg_similarity_score |-> "avg_similarity_score"]

\* evaluate_multiple_queries or get_aggregated_metrics has returned
Aggregated ==
    /\ bm_pc = "returned"
    /\ bm_fn \in {"evaluate_multiple_queries", "get_aggregated_metrics"}

\* C22 as stated: the aggregate returned over a non-empty accumulator has
\* total_queries equal to the accumulator length and each avg_ field
\* equal to the arithmetic mean of its field over all accumulated
\* records.
C22_AggregateIsMean ==
    (Aggregated /\ results # <<>>) =>
        /\ bm_value.total_queries = Len(results)
        /\ \A f \in DOMAIN AvgFields :
               bm_value[f] = Mean(Column(results, AvgFields[f]))

\* C22 amended: the aggregate returned over a non-empty accumulator has
\* total_queries equal to the accumulator length and each avg_ field
\* equal to the arithmetic mean of its field over all accumulated
\* records, rounded to 4 decimals.
C22_AggregateIsRoundedMean ==
    (Aggregated /\ results # <<>>) =>
        /\ bm_value.total_queries = Len(results)
        /\ \A f \in DOMAIN AvgFields :
               bm_value[f] =
                   Round(Mean(Column(results, AvgFields[f])), RoundDigits)

\* evaluate_multiple_queries has returned after one pair on an
\* accumulator that held one record already; the average differs from
\* the batch's value, and rounding has changed a mean
C22_Witness ==
    /\ Aggregated
    /\ bm_fn = "evaluate_multiple_queries"
    /\ bm_base = 1
    /\ Len(results) = 2
    /\ bm_value.avg_precision_at_5 # results[2].precision_at_5
    /\ bm_value.avg_recall_at_5 # Mean(Column(results, "recall_at_5"))

\* C23: an aggregation on an empty accumulator, by
\* get_aggregated_metrics or by evaluate_multiple_queries with no pairs,
\* returns the error outcome, not a mapping of metrics, and the
\* accumulator is empty after it.
C23_EmptyAccumulatorIsAnError ==
    [][(/\ results = <<>>
        /\ bm_pc' = "returned"
        /\ bm_fn' \in {"evaluate_multiple_queries",
                       "get_aggregated_metrics"})
           => /\ bm_value' = NoResults
              /\ "total_queries" \notin DOMAIN bm_value'
              /\ results' = <<>>]_vars

\* evaluate_multiple_queries has returned the error outcome after no pair
\* on a fresh evaluator
C23_Witness ==
    /\ bm_pc = "returned"
    /\ bm_fn = "evaluate_multiple_queries"
    /\ query_relevance_pairs = <<>>
    /\ results = <<>>
    /\ bm_value = NoResults

\* C24: a call of get_aggregated_metrics leaves the accumulator as it
\* was, and made right after an aggregation it returns what that
\* aggregation returned.
C24_AggregationIsReadOnly ==
    [][(bm_fn' = "get_aggregated_metrics" /\ bm_pc' = "returned")
          => /\ results' = results
             /\ Aggregated => bm_value' = bm_value]_vars

\* get_aggregated_metrics has returned twice in a row on an accumulator
\* of two records
C24_Witness ==
    /\ bm_pc = "returned"
    /\ bm_fn = "get_aggregated_metrics"
    /\ aggregations = 2
    /\ Len(results) = 2
    /\ bm_value = Averages(results)

\* C25: when the two records of the accumulator have precision_at_5 0.4
\* and 0.6, the aggregate returned has total_queries 2 and
\* avg_precision_at_5 exactly 0.5.
C25_AggregationScenario ==
    (/\ Aggregated
     /\ Len(results) = 2
     /\ results[1].precision_at_5 = Ratio(4, 10)
     /\ results[2].precision_at_5 = Ratio(6, 10))
        => /\ bm_value.total_queries = 2
           /\ bm_value.avg_precision_at_5 = Ratio(5, 10)

\* evaluate_multiple_queries has returned on a fresh evaluator after two
\* queries, the first with 2 and the second with 3 relevant ids in its
\* top 5
C25_Witness ==
    /\ Aggregated
    /\ bm_fn = "evaluate_multiple_queries"
    /\ bm_base = 0
    /\ Len(results) = 2
    /\ results[1].precision_at_5 = Ratio(4, 10)
    /\ results[2].precision_at_5 = Ratio(6, 10)
    /\ bm_value.avg_precision_at_5 = Ratio(5, 10)

\* C26: when evaluate_query has raised, the retriever was called once,
\* what is raised is the retriever's failure, and no record was appended
\* for the query: the accumulator holds what it held at the call and,
\* under evaluate_multiple_queries, one record for each pair before the
\* failing one.
C26_SearchFailureForwarded ==
    bm_pc = "raised" =>
        /\ searches = 1
        /\ bm_value = SearchError
        /\ IF InBatch THEN BatchRecorded ELSE Len(results) = bm_base

\* the retriever has failed on the second pair of
\* evaluate_multiple_queries
C26_Witness ==
    /\ bm_pc = "raised"
    /\ InBatch
    /\ pair_i = 2
    /\ Len(results) = 1
    /\ bm_value = SearchError

----------------------------------------------------------------------------
(* The segmentation engine's claims, continued *)

\* the offsets of character c in the window [st, end) of text t
InWindow(t, c, st, end) ==
    {p \in Max(st, 0)..(end - 1) : p < Len(t) /\ t[p + 1] = c}

\* the cut point the rule gives for the window [st, end): after its last
\* period when that lies after st, else after its last newline when that
\* lies after st, else end
RuleCut(t, st, end) ==
    LET periods == InWindow(t, ".", st, end)
        newlines == InWindow(t, "\n", st, end)
    IN  IF periods # {} /\ SetMax(periods) > st THEN SetMax(periods) + 1
        ELSE IF newlines # {} /\ SetMax(newlines) > st
             THEN SetMax(newlines) + 1
        ELSE end

\* C27: for a chunker built with chunk_size > 0 and 0 <= overlap <
\* chunk_size, whenever the loop is about to cut a slice whose tentative
\* end is before the end of the text, the end it cuts at is the position
\* after the last period of [start, end) if that period is after start,
\* else the position after the last newline of the window if that is
\* after start, else the tentative end; and that end is greater than
\* start.
C27_CutPoint ==
    (/\ ValidConfig
     /\ pc = "chunk_text"
     /\ LoopGuard(start, text)
     /\ TentativeEnd(text, start) < Len(text))
        => /\ CutEnd(text, start) =
                  RuleCut(text, start, TentativeEnd(text, start))
           /\ CutEnd(text, start) > start

\* a content with a first and a last character that are not whitespace
Trimmed(s) == s # <<>> /\ ~IsSpace(s[1]) /\ ~IsSpace(s[Len(s)])

\* C28: at every point the k-th chunk emitted by the running chunk_text
\* has the id prefix_chunk_(k-1), a content that is non-empty and
\* trimmed, and length = len(content); and the counter is the number of
\* chunks emitted, so a slice that is blank after trimming takes no id.
C28_SequentialIds ==
    /\ ~more => chunk_count = Len(chunks)
    /\ \A k \in 1..Len(chunks) :
           /\ chunks[k].id = ChunkId(prefix, k - 1)
           /\ Trimmed(chunks[k].content)
           /\ chunks[k].length = Len(chunks[k].content)

\* chunk_text has returned two chunks with a blank slice skipped between
\* them
C28_Witness ==
    /\ pc = "done"
    /\ caller = "chunk_text"
    /\ overlap = 0
    /\ Len(chunks) = 2
    /\ chunks[2].start_char > chunks[1].end_char
    /\ chunk_count = 2

\* the extensions of file names
Extensions == {".pdf"}

\* a file name without its extension
StripExtension(name) ==
    IF name # <<>> /\ name[Len(name)] \in Extensions
    THEN SubSeq(name, 1, Len(name) - 1)
    ELSE name

\* the documents of the batch with the file name a chunk carries
DocsOf(c) ==
    {i \in 1..Len(documents) : documents[i].filename = c.source_file}

\* the document of the batch a chunk carries the file name of
DocOf(c) == CHOOSE i \in DocsOf(c) : TRUE

\* C29: when chunk_documents has returned, every chunk of its list
\* carries the filename, path, title and author of one document of the
\* batch, its content is cut from that document's content, its id prefix
\* is that document's filename without the extension, a chunk is
\* followed by the next chunk of the same document or by the first chunk
\* of a later document, and the chunks of the last document chunked have
\* the id, content, start_char, end_char and length chunk_text gave them.
C29_GroupedAndStamped ==
    (pc = "done" /\ caller = "chunk_documents") =>
        /\ \A k \in 1..Len(all_chunks) :
               LET c == all_chunks[k]
               IN  /\ DocsOf(c) # {}
                   /\ c.source_path = documents[DocOf(c)].path
                   /\ c.doc_title =
                          Get(documents[DocOf(c)].metadata, "title", "Unknown")
                   /\ c.doc_author =
                          Get(documents[DocOf(c)].metadata, "author", "Unknown")
                   /\ c.content =
                          Strip(Slice(documents[DocOf(c)].content,
                                      c.start_char, c.end_char))
                   /\ c.id[1] = StripExtension(documents[DocOf(c)].filename)
        /\ \A k \in 1..(Len(all_chunks) - 1) :
               LET c == all_chunks[k]
                   d == all_chunks[k + 1]
               IN  \/ DocOf(c) = DocOf(d) /\ d.id[3] = c.id[3] + 1
                   \/ DocOf(c) < DocOf(d) /\ d.id[3] = 0
        /\ all_chunks # <<>> => all_chunks[1].id[3] = 0
        /\ \A k \in 1..Len(chunks) :
               LET c == all_chunks[Len(all_chunks) - Len(chunks) + k]
               IN  /\ c.id = chunks[k].id
                   /\ c.content = chunks[k].content
                   /\ c.start_char = chunks[k].start_char
                   /\ c.end_char = chunks[k].end_char
                   /\ c.length = chunks[k].length

----------------------------------------------------------------------------
(* The evaluator's claims, continued *)

\* C30: for every retrieved list, every relevant list and every k > 0,
\* what calculate_precision_at_k, calculate_recall_at_k and calculate_mrr
\* return is at least 0 and at most 1.
C30_MetricsInUnitInterval ==
    (/\ bm_pc = "returned"
     /\ bm_fn \in {"calculate_precision_at_k", "calculate_recall_at_k",
                   "calculate_mrr"}
     /\ bm_fn # "calculate_mrr" => bm_k > 0)
        => /\ ~Raises(bm_value)
           /\ Leq(Zero, bm_value)
           /\ Leq(bm_value, One)

====
